---------------------------- MODULE Spec2Model ----------------------------
(***************************************************************************)
(* nuxt-fsd: Feature-Sliced Design support for Nuxt.                       *)
(*                                                                         *)
(* The module's setup() reads its options and the directory tree under     *)
(* srcDir, registers auto-import and auto-component directories, derives   *)
(* one impound rule bundle per discovered slice and installs a             *)
(* builder:watch hook that restarts the host when a directory is added.    *)
(*                                                                         *)
(* Strings are sequences of one-character strings, so that the regular     *)
(* expressions setup() builds by interpolation are matched character by    *)
(* character, the way RegExp.prototype.test matches them.                  *)
(***************************************************************************)
EXTENDS Integers, Sequences, FiniteSets

VARIABLES
    options,          \* the module options of this run (ModuleOptions)
    autoImport,       \* nuxt.options.imports.autoImport
    fs,               \* the directories under srcDir: paths of components
    pc,               \* "boot": setup not yet run; "ready"; "crashed"
    errors,           \* logger.error diagnostics of the current cycle
    alias,            \* nuxt.options.alias entries added by setup
    dir,              \* nuxt.options.dir remap (pages, layouts)
    slices,           \* the slices discovered by the current cycle's scan
    importsDirs,      \* paths handed to addImportsDir
    componentsDirs,   \* paths handed to addComponentsDir
    plugins,          \* registrations handed to addBuildPlugin
    watching,         \* the builder:watch hook is installed
    restartRequested, \* nuxt.callHook("restart") was called
    lastEvent,        \* the last event the builder:watch hook was called with
    probe             \* the last import checked by the registered plugins

vars == <<options, autoImport, fs, pc, errors, alias, dir, slices,
          importsDirs, componentsDirs, plugins, watching, restartRequested,
          lastEvent, probe>>

---------------------------------------------------------------------------
(* Bounds *)

\* The number of directories that exist under srcDir.
MaxDirs == 3

---------------------------------------------------------------------------
(* Names used for layers, segments and slice directories *)

App == <<"a", "p", "p">>
Ent == <<"e", "n", "t">>
Entx == <<"e", "n", "t", "x">>
Sh == <<"s", "h">>
\* a layer name with a character of folderNameIllegal
Bad == <<"e", ":", "t">>
Ui == <<"u", "i">>
SliceA == <<"a">>
SliceAB == <<"a", "b">>
\* a directory name with a regular-expression metacharacter
SliceAPlusB == <<"a", "+", "b">>

\* nuxt.options.srcDir
SrcDir == <<"/", "w", ".", "x">>

LayerLists ==
    { <<>>, <<App>>, <<App, Sh>>, <<App, Ent, Sh>>, <<App, Ent, Entx, Sh>>,
      <<App, Bad, Sh>> }

SegmentLists == { <<Ui>>, <<>> }

\* names a directory below a layer directory may carry
SubNames == { Ui, SliceA, SliceAB, SliceAPlusB }

---------------------------------------------------------------------------
(* Strings *)

IsPrefix(p, s) == Len(p) <= Len(s) /\ SubSeq(s, 1, Len(p)) = p

\* path.join of a base string and name components (the names here hold no
\* "/", "." or ".." component, so join only inserts the separators)
RECURSIVE Join(_, _)
Join(base, comps) ==
    IF comps = <<>> THEN base
    ELSE Join(base \o <<"/">> \o Head(comps), Tail(comps))

\* an arbitrary but fixed enumeration of a finite set (readdirSync's order)
RECURSIVE SetToSeq(_)
SetToSeq(S) ==
    IF S = {} THEN <<>>
    ELSE LET x == CHOOSE y \in S : TRUE IN <<x>> \o SetToSeq(S \ {x})

\* array.flat(): the concatenation of a sequence of sequences, so that
\* array.flatMap(f) is Flat of the mapped array
RECURSIVE Flat(_)
Flat(ss) == IF ss = <<>> THEN <<>> ELSE Head(ss) \o Flat(Tail(ss))

---------------------------------------------------------------------------
(* Regular expressions                                                     *)
(*                                                                         *)
(* A pattern is kept as its source text, as setup() writes it.  RegExp     *)
(* reads the text as a sequence of atoms (an escaped character, ".", the   *)
(* class [^\/], a plain character), each optionally followed by "+", and   *)
(* an optional trailing negative lookahead (?!alt|alt).  The names of this *)
(* model hold none of ( ) [ ] | so the only group and class in a pattern   *)
(* are the ones of setup()'s own template.                                 *)

\* the characters escape-string-regexp puts a backslash before
RegexSpecial ==
    { "|", "\\", "{", "}", "(", ")", "[", "]", "^", "$", "+", "*", "?", "." }

EscapeChar(c) ==
    IF c \in RegexSpecial THEN <<"\\", c>>
    ELSE IF c = "-" THEN <<"\\", "x", "2", "d">>
    ELSE <<c>>

\* escapeRE(string)
EscapeRE(s) == Flat([i \in DOMAIN s |-> EscapeChar(s[i])])

SlashChar(c) == IF c = "/" THEN <<"\\", "/">> ELSE <<c>>

\* string.replaceAll("/", "\\/")
ReplaceAllSlash(s) == Flat([i \in DOMAIN s |-> SlashChar(s[i])])

\* the atom of source text src that starts at position i
AtomAt(src, i) ==
    LET c == src[i]
        atom ==
            IF c = "\\" /\ i + 3 <= Len(src) /\ src[i + 1] = "x"
               /\ src[i + 2] = "2" /\ src[i + 3] = "d"
            THEN [kind |-> "lit", c |-> "-", width |-> 4]
            ELSE IF c = "\\" /\ i + 1 <= Len(src)
            THEN [kind |-> "lit", c |-> src[i + 1], width |-> 2]
            ELSE IF c = "[" /\ i + 4 <= Len(src)
                    /\ SubSeq(src, i, i + 4) = <<"[", "^", "\\", "/", "]">>
            THEN [kind |-> "notslash", c |-> "/", width |-> 5]
            ELSE IF c = "."
            THEN [kind |-> "any", c |-> ".", width |-> 1]
            ELSE [kind |-> "lit", c |-> c, width |-> 1]
        next == i + atom.width
        plus == next <= Len(src) /\ src[next] = "+"
    IN [kind |-> atom.kind, c |-> atom.c, plus |-> plus,
        width |-> atom.width + (IF plus THEN 1 ELSE 0)]

RECURSIVE AtomsFrom(_, _)
AtomsFrom(src, i) ==
    IF i > Len(src) THEN <<>>
    ELSE LET a == AtomAt(src, i)
         IN <<[kind |-> a.kind, c |-> a.c, plus |-> a.plus]>>
            \o AtomsFrom(src, i + a.width)

Atoms(src) == AtomsFrom(src, 1)

RECURSIVE SplitBar(_)
SplitBar(src) ==
    IF \A i \in DOMAIN src : src[i] # "|" THEN <<src>>
    ELSE LET i == CHOOSE k \in DOMAIN src :
                      src[k] = "|" /\ \A j \in 1..(k - 1) : src[j] # "|"
         IN <<SubSeq(src, 1, i - 1)>> \o SplitBar(SubSeq(src, i + 1, Len(src)))

\* new RegExp(source): the atoms before the lookahead, and the lookahead's
\* alternatives
ParseRegExp(src) ==
    IF \A i \in DOMAIN src : src[i] # "("
    THEN [pre |-> Atoms(src), neg |-> <<>>]
    ELSE LET i == CHOOSE k \in DOMAIN src : src[k] = "("
             body == SubSeq(src, i + 3, Len(src) - 1)
         IN [pre |-> Atoms(SubSeq(src, 1, i - 1)),
             neg |-> [n \in DOMAIN SplitBar(body) |-> Atoms(SplitBar(body)[n])]]

AtomMatches(a, ch) ==
    CASE a.kind = "lit" -> ch = a.c
      [] a.kind = "any" -> TRUE
      [] a.kind = "notslash" -> ch # "/"

\* the positions of s at which atoms[k..] can end when it starts at i
RECURSIVE MatchEnds(_, _, _, _)
MatchEnds(atoms, k, s, i) ==
    IF k > Len(atoms) THEN {i}
    ELSE IF i > Len(s) \/ ~AtomMatches(atoms[k], s[i]) THEN {}
    ELSE MatchEnds(atoms, k + 1, s, i + 1)
         \cup (IF atoms[k].plus THEN MatchEnds(atoms, k, s, i + 1) ELSE {})

\* regexp.test(s): an unanchored search
RegexTest(src, s) ==
    LET re == ParseRegExp(src)
    IN \E start \in 1..(Len(s) + 1) :
          \E e \in MatchEnds(re.pre, 1, s, start) :
             \A n \in DOMAIN re.neg : MatchEnds(re.neg[n], 1, s, e) = {}

---------------------------------------------------------------------------
(* The directory tree *)

\* the absolute path of a directory of fs
PathOf(d) == Join(SrcDir, d)

\* existsSync(path)
ExistsSync(path) == path = SrcDir \/ \E d \in fs : PathOf(d) = path

\* readdirSync(path, { withFileTypes: true, recursive: true }) filtered by
\* isDirectory(): the directories below path, each as its Dirent, whose
\* name is the entry's base name
ReaddirDirs(path) ==
    LET below == { d \in fs : IsPrefix(path \o <<"/">>, PathOf(d)) }
        entries == SetToSeq(below)
    IN [n \in DOMAIN entries |-> entries[n][Len(entries[n])]]

---------------------------------------------------------------------------
(* setup(options, nuxt), step by step *)

FolderNameIllegalChars == { "/", "\\", "?", "%", "*", ":", "|", "\"", "<", ">" }

\* folderNameIllegal.test(name)
FolderNameIllegal(name) == \E i \in DOMAIN name : name[i] \in FolderNameIllegalChars

ErrLayers == "Must define at least 2 layers"
ErrSegments == "Must define at least 1 segment"
ErrIllegal == "Illegal layer or segment name used"

\* the diagnostics the validation block logs, in order
Validate(opts) ==
    (IF Len(opts.layers) < 2 THEN <<ErrLayers>> ELSE <<>>)
    \o (IF Len(opts.segments) < 1 THEN <<ErrSegments>> ELSE <<>>)
    \o (IF (\E i \in DOMAIN opts.layers : FolderNameIllegal(opts.layers[i]))
           \/ (\E i \in DOMAIN opts.segments : FolderNameIllegal(opts.segments[i]))
        THEN <<ErrIllegal>> ELSE <<>>)

\* the alias entries: one per layer
AliasEntries(opts) ==
    { [name |-> opts.aliasPrefix \o opts.layers[i],
       path |-> Join(SrcDir, <<opts.layers[i]>>)] : i \in DOMAIN opts.layers }

\* layers.at(0), layers.at(-1), layers.slice(1, -1)
AppLayer(layers) == layers[1]
SharedLayer(layers) == layers[Len(layers)]
MiddleLayers(layers) == SubSeq(layers, 2, Len(layers) - 1)

Routes == <<"r", "o", "u", "t", "e", "s">>
Layouts == <<"l", "a", "y", "o", "u", "t", "s">>

\* the dir defaults handed to loadNuxtConfig
DirRemap(layers) ==
    [pages |-> Join(SrcDir, <<AppLayer(layers), Routes>>),
     layouts |-> Join(SrcDir, <<AppLayer(layers), Layouts>>)]

\* const slices = middleLayers.flatMap(...)
ScanSlices(layers) ==
    LET scan(layer) ==
            LET layerPath == Join(SrcDir, <<layer>>)
                names == ReaddirDirs(layerPath)
            IN IF ~ExistsSync(layerPath) THEN <<>>
               ELSE [n \in DOMAIN names |-> [layer |-> layer, slice |-> names[n]]]
        middle == MiddleLayers(layers)
    IN Flat([i \in DOMAIN middle |-> scan(middle[i])])

\* const segmentsPaths = slices.flatMap(...)
SegmentsPaths(found, segments) ==
    LET perSlice(sl) ==
            [g \in DOMAIN segments |->
                [layer |-> sl.layer, slice |-> sl.slice, segment |-> segments[g]]]
    IN Flat([k \in DOMAIN found |-> perSlice(found[k])])

\* the three addImportsDir calls
ImportsDirsOf(opts, found) ==
    LET appDir(segment) == Join(SrcDir, <<AppLayer(opts.layers), segment>>)
        sharedDir(segment) == Join(SrcDir, <<SharedLayer(opts.layers), segment>>)
        sliceDir(f) == Join(SrcDir, <<f.layer, f.slice, f.segment>>)
        paths == SegmentsPaths(found, opts.segments)
    IN [g \in DOMAIN opts.segments |-> appDir(opts.segments[g])]
       \o [g \in DOMAIN opts.segments |-> sharedDir(opts.segments[g])]
       \o [n \in DOMAIN paths |-> sliceDir(paths[n])]

\* the addComponentsDir calls: the same candidates, each behind existsSync
\* (the component prefix is not kept)
ComponentsDirsOf(opts, found) == SelectSeq(ImportsDirsOf(opts, found), ExistsSync)

\* layersIdxs = Object.fromEntries(layers.map((layer, idx) => [layer, idx])):
\* the zero-based index of the last occurrence of the name
LayersIdxs(layers, layer) ==
    (CHOOSE i \in DOMAIN layers :
        layers[i] = layer /\ \A j \in DOMAIN layers : layers[j] = layer => j <= i) - 1

\* a variant that also takes the slice's own layer
PreviousLayersInclusive(layers, layerIdx) == SubSeq(layers, 1, layerIdx + 1)

\* layers.slice(0, layerIdx)
PreviousLayers(layers, layerIdx) == SubSeq(layers, 1, layerIdx)

MsgHigher == "Cross-imports from higher layers are not allowed"
MsgSameLayer ==
    "Cross-imports from different slices in the same layer are not allowed. Try to use @x instead"

\* the source of the pattern built for one previous layer
PolicyASource(previousLayer) ==
    ReplaceAllSlash(EscapeRE(SrcDir)) \o <<"\\", "/">> \o previousLayer

\* the source of the pattern pushed after them
PolicyBSource(layer, slice) ==
    ReplaceAllSlash(EscapeRE(SrcDir)) \o <<"\\", "/">> \o layer
    \o <<"\\", "/", "(", "?", "!", "[", "^", "\\", "/", "]", "+", "\\", "/",
         "@", "x", "\\", "/">>
    \o slice \o <<"|">> \o slice \o <<"\\", "/", ")">>

\* include: join(srcDir, layer, slice, "**", "*")
IncludeGlob(layer, slice) == Join(SrcDir, <<layer, slice, <<"*", "*">>, <<"*">>>>)

\* the name given by rename()
PluginName(layer, slice) == <<"nuxt-fsd:impound-">> \o layer \o <<"-">> \o slice

\* the body of slices.forEach in the preventCrossImports block: the
\* registration made for one slice, if any
PluginFor(opts, sl) ==
    LET layerIdx == LayersIdxs(opts.layers, sl.layer)
        previousLayers == PreviousLayers(opts.layers, layerIdx)
        policyA(previousLayer) ==
            [re |-> PolicyASource(previousLayer), msg |-> MsgHigher]
    IN IF Len(previousLayers) = 0 THEN <<>>
       ELSE << [name |-> PluginName(sl.layer, sl.slice),
                layer |-> sl.layer,
                slice |-> sl.slice,
                include |-> IncludeGlob(sl.layer, sl.slice),
                patterns |-> [j \in DOMAIN previousLayers |->
                                 policyA(previousLayers[j])]
                             \o <<[re |-> PolicyBSource(sl.layer, sl.slice),
                                   msg |-> MsgSameLayer]>>] >>

\* a variant that does not read the preventCrossImports option
PluginsOfUnguarded(opts, found) ==
    Flat([k \in DOMAIN found |-> PluginFor(opts, found[k])])

\* the addBuildPlugin calls of one setup
PluginsOf(opts, found) ==
    IF opts.preventCrossImports
    THEN Flat([k \in DOMAIN found |-> PluginFor(opts, found[k])])
    ELSE <<>>

\* whether the builder:watch hook is added
HookAdded(opts, auto) == opts.preventCrossImports \/ auto

---------------------------------------------------------------------------
(* The plugin and the watch hook at work *)

\* whether a file is inside the subtree an include glob <base>/**/* names
GlobMatch(include, file) ==
    LET base == SubSeq(include, 1, Len(include) - 5)
    IN IsPrefix(base \o <<"/">>, file) /\ Len(file) > Len(base) + 1

\* the messages of the patterns that reject import id in importer file
Violations(file, id) ==
    UNION { { plugins[k].patterns[n].msg :
                n \in { m \in DOMAIN plugins[k].patterns :
                          RegexTest(plugins[k].patterns[m].re, id) } } :
            k \in { j \in DOMAIN plugins : GlobMatch(plugins[j].include, file) } }

\* path.replace(srcDir, ""): the first occurrence removed
ReplaceFirst(s, pat) ==
    LET hits == { i \in 1..(Len(s) - Len(pat) + 1) :
                    SubSeq(s, i, i + Len(pat) - 1) = pat }
    IN IF hits = {} THEN s
       ELSE LET i == CHOOSE h \in hits : \A g \in hits : h <= g
            IN SubSeq(s, 1, i - 1) \o SubSeq(s, i + Len(pat), Len(s))

PathMatcherHead ==
    <<"\\", "/", "[", "^", "\\", "/", "]", "+",
      "\\", "/", "[", "^", "\\", "/", "]", "+">>
PathMatcherSegment == <<"\\", "/", "[", "^", "\\", "/", "]", "+">>

\* pathMatcher.exec(path)?.groups != null
PathMatches(path) ==
    \E start \in 1..(Len(path) + 1) :
       \E e \in MatchEnds(Atoms(PathMatcherHead), 1, path, start) :
          \/ e = Len(path) + 1
          \/ Len(path) + 1 \in MatchEnds(Atoms(PathMatcherSegment), 1, path, e)

---------------------------------------------------------------------------
(* State machine *)

DefaultDir == [pages |-> <<"p", "a", "g", "e", "s">>, layouts |-> Layouts]
NoProbe == [file |-> <<>>, id |-> <<>>, blocked |-> {}]
NoEvent == [event |-> "none", path |-> <<>>]

OptionSets ==
    [layers : LayerLists, segments : SegmentLists, aliasPrefix : {<<>>},
     preventCrossImports : BOOLEAN]

Fresh ==
    /\ pc = "boot"
    /\ errors = <<>>
    /\ alias = {}
    /\ dir = DefaultDir
    /\ slices = <<>>
    /\ importsDirs = <<>>
    /\ componentsDirs = <<>>
    /\ plugins = <<>>
    /\ watching = FALSE
    /\ restartRequested = FALSE
    /\ probe = NoProbe

Init ==
    /\ options \in OptionSets
    /\ autoImport \in BOOLEAN
    /\ fs = {}
    /\ lastEvent = NoEvent
    /\ Fresh

\* the directories that can be created next: a layer directory, or a
\* directory inside an existing one
CandidateDirs ==
    ({ <<options.layers[i]>> : i \in DOMAIN options.layers }
     \cup { Append(d, n) : d \in fs, n \in SubNames }) \ fs

\* a directory is created while no watch hook is installed, the tree
\* holding fewer than max directories
MkDirWithin(max) ==
    /\ ~watching
    /\ Cardinality(fs) < max
    /\ \E d \in CandidateDirs : fs' = fs \cup {d}
    /\ UNCHANGED <<options, autoImport, pc, errors, alias, dir, slices,
                   importsDirs, componentsDirs, plugins, watching,
                   restartRequested, lastEvent, probe>>

MkDir == MkDirWithin(MaxDirs)

\* setup(options, nuxt).  With no layer at all, layers.at(0) is undefined
\* and join(srcDir, appLayer, "routes") throws.
Setup ==
    /\ pc = "boot"
    /\ errors' = Validate(options)
    /\ alias' = AliasEntries(options)
    /\ IF Len(options.layers) = 0
       THEN /\ pc' = "crashed"
            /\ UNCHANGED <<dir, slices, importsDirs, componentsDirs, plugins,
                           watching>>
       ELSE LET found == ScanSlices(options.layers)
            IN /\ pc' = "ready"
               /\ dir' = DirRemap(options.layers)
               /\ slices' = found
               /\ importsDirs' =
                     (IF autoImport # FALSE THEN ImportsDirsOf(options, found)
                      ELSE <<>>)
               /\ componentsDirs' =
                     (IF autoImport # FALSE THEN ComponentsDirsOf(options, found)
                      ELSE <<>>)
               /\ plugins' = PluginsOf(options, found)
               /\ watching' = HookAdded(options, autoImport)
    /\ UNCHANGED <<options, autoImport, fs, restartRequested, lastEvent, probe>>

\* a variant whose matcher wants the segment component too
WatchRestartsSegmentOnly(event, path) ==
    /\ event = "addDir"
    /\ LET rel == ReplaceFirst(path, SrcDir)
       IN \E start \in 1..(Len(rel) + 1) :
             \E e \in MatchEnds(Atoms(PathMatcherHead), 1, rel, start) :
                Len(rel) + 1 \in MatchEnds(Atoms(PathMatcherSegment), 1, rel, e)

\* whether the watch handler calls the restart hook for this event
WatchRestarts(event, path) ==
    event = "addDir" /\ PathMatches(ReplaceFirst(path, SrcDir))

\* builder:watch(event, path): the watcher reports a created directory,
\* the tree holding fewer than max directories
WatchAddDirWithin(max) ==
    /\ pc = "ready"
    /\ watching
    /\ Cardinality(fs) < max
    /\ \E d \in CandidateDirs :
          /\ fs' = fs \cup {d}
          /\ lastEvent' = [event |-> "addDir", path |-> PathOf(d)]
          /\ restartRequested' =
                (restartRequested \/ WatchRestarts("addDir", PathOf(d)))
    /\ UNCHANGED <<options, autoImport, pc, errors, alias, dir, slices,
                   importsDirs, componentsDirs, plugins, watching, probe>>

WatchAddDir == WatchAddDirWithin(MaxDirs)

\* builder:watch(event, path): the watcher reports a created file
WatchAdd ==
    /\ pc = "ready"
    /\ watching
    /\ \E d \in fs :
          LET path == Join(PathOf(d), <<<<"x">>>>)
          IN /\ lastEvent' = [event |-> "add", path |-> path]
             /\ restartRequested' = (restartRequested \/ WatchRestarts("add", path))
    /\ UNCHANGED <<options, autoImport, fs, pc, errors, alias, dir, slices,
                   importsDirs, componentsDirs, plugins, watching, probe>>

\* the host serves the restart hook: the instance is torn down and the
\* module is set up again from scratch
Restart ==
    /\ pc = "ready"
    /\ restartRequested
    /\ pc' = "boot"
    /\ errors' = <<>>
    /\ alias' = {}
    /\ dir' = DefaultDir
    /\ slices' = <<>>
    /\ importsDirs' = <<>>
    /\ componentsDirs' = <<>>
    /\ plugins' = <<>>
    /\ watching' = FALSE
    /\ restartRequested' = FALSE
    /\ probe' = NoProbe
    /\ UNCHANGED <<options, autoImport, fs, lastEvent>>

Next == MkDir \/ Setup \/ WatchAddDir \/ WatchAdd \/ Restart

Spec == Init /\ [][Next]_vars

---------------------------------------------------------------------------
(* The watch hook on a deeper tree: one valid configuration, and room for *)
(* a directory four levels below the source root                         *)

MaxWatchDirs == 4

InitWatch ==
    /\ options \in { o \in OptionSets : o.layers = <<App, Ent, Sh>>
                                         /\ o.segments = <<Ui>> }
    /\ autoImport = TRUE
    /\ fs = {}
    /\ lastEvent = NoEvent
    /\ Fresh

MkDirDeep == MkDirWithin(MaxWatchDirs)

WatchAddDirDeep == WatchAddDirWithin(MaxWatchDirs)

NextWatch == MkDirDeep \/ Setup \/ WatchAddDirDeep \/ WatchAdd \/ Restart

SpecWatch == InitWatch /\ [][NextWatch]_vars

---------------------------------------------------------------------------
(* The registered plugins checking an import *)

AtX == <<"@", "x">>
FileX == <<"x">>

\* import ids <root>/<layer>/<name>/x and <root>/<layer>/<name>/@x/<name>/x
ImportIds ==
    { Join(SrcDir, <<options.layers[i], s>> \o tail) :
        i \in DOMAIN options.layers, s \in SubNames,
        tail \in {<<FileX>>} \cup { <<AtX, s2, FileX>> : s2 \in SubNames } }

\* importer files: a file x inside an existing directory below a layer
ImporterFiles == { Join(PathOf(d), <<FileX>>) : d \in { e \in fs : Len(e) >= 2 } }

\* the plugins of the current cycle resolve import id in importer file
\* (they keep no state between imports, so one resolution is followed per
\* run)
Resolve ==
    /\ pc = "ready"
    /\ probe = NoProbe
    /\ \E file \in ImporterFiles, id \in ImportIds :
          probe' = [file |-> file, id |-> id, blocked |-> Violations(file, id)]
    /\ UNCHANGED <<options, autoImport, fs, pc, errors, alias, dir, slices,
                   importsDirs, componentsDirs, plugins, watching,
                   restartRequested, lastEvent>>

InitResolve ==
    /\ options \in { o \in OptionSets :
                       /\ o.layers \in { <<App, Ent, Sh>>, <<App, Ent, Entx, Sh>> }
                       /\ o.segments = <<Ui>>
                       /\ o.preventCrossImports }
    /\ autoImport = TRUE
    /\ fs = {}
    /\ lastEvent = NoEvent
    /\ Fresh

NextResolve == MkDir \/ Setup \/ Resolve

SpecResolve == InitResolve /\ [][NextResolve]_vars

---------------------------------------------------------------------------
(* Properties *)

Layers == options.layers
LayerPath(i) == Join(SrcDir, <<Layers[i]>>)
Probed == probe # NoProbe

\* the pattern of a registration that carries the same-layer message
SameLayerRe(p) ==
    p.patterns[CHOOSE n \in DOMAIN p.patterns : p.patterns[n].msg = MsgSameLayer].re

\* the slice names discovered in a layer other than a given one
Siblings(p) ==
    { slices[t].slice : t \in { u \in DOMAIN slices :
                                  /\ slices[u].layer = p.layer
                                  /\ slices[u].slice # p.slice } }

\* C1: with preventCrossImports on, a file below layer i (in a slice of a
\* middle layer or a segment of the last layer) that imports a path
\* <root>/<layer j>/... with j < i is rejected by a registered rule whose
\* scope covers the file.
C1_LowerCannotImportHigher ==
    (Probed /\ options.preventCrossImports) =>
       \A i \in DOMAIN Layers : \A j \in 1..(i - 1) :
          ( /\ \/ /\ i < Len(Layers)
                  /\ IsPrefix(LayerPath(i) \o <<"/">>, probe.file)
               \/ /\ i = Len(Layers)
                  /\ \E g \in DOMAIN options.segments :
                        IsPrefix(Join(LayerPath(i), <<options.segments[g]>>) \o <<"/">>,
                                 probe.file)
            /\ IsPrefix(LayerPath(j) \o <<"/">>, probe.id) )
          => probe.blocked # {}

\* C2: for a discovered slice S and a sibling slice T of the same layer L,
\* every import <root>/<L>/<T>/... that does not go through T's @x/<S>
\* matches S's same-layer pattern.
C2_SiblingImportForbidden ==
    Probed =>
       \A k \in DOMAIN plugins : \A t \in Siblings(plugins[k]) :
          LET target == Join(SrcDir, <<plugins[k].layer, t>>)
          IN ( /\ IsPrefix(target \o <<"/">>, probe.id)
               /\ ~IsPrefix(Join(target, <<AtX, plugins[k].slice>>), probe.id) )
             => RegexTest(SameLayerRe(plugins[k]), probe.id)

\* C3: for a discovered slice S of layer L, no import <root>/<L>/<S>/...
\* matches S's same-layer pattern.
C3_SelfImportAllowed ==
    Probed =>
       \A k \in DOMAIN plugins :
          IsPrefix(Join(SrcDir, <<plugins[k].layer, plugins[k].slice>>) \o <<"/">>,
                   probe.id)
          => ~RegexTest(SameLayerRe(plugins[k]), probe.id)

\* C4: for a discovered slice S and a sibling slice T of the same layer L,
\* an import <root>/<L>/<T>/@x/<S>/... does not match S's same-layer pattern.
C4_EscapeHonoured ==
    Probed =>
       \A k \in DOMAIN plugins : \A t \in Siblings(plugins[k]) :
          IsPrefix(Join(SrcDir, <<plugins[k].layer, t, AtX, plugins[k].slice>>)
                      \o <<"/">>, probe.id)
          => ~RegexTest(SameLayerRe(plugins[k]), probe.id)

\* C5: with preventCrossImports off, no rule bundle is ever registered,
\* whatever the layers, the discovered slices and the auto-import setting.
C5_NoRulesWhenDisabled == ~options.preventCrossImports => plugins = <<>>

\* setup has run with the option off, auto-import off and slices on disk
C5_Witness ==
    /\ pc = "ready"
    /\ ~options.preventCrossImports
    /\ ~autoImport
    /\ Len(slices) >= 2

\* the zero-based position of a layer name in the configured (duplicate
\* free) list
IndexOfLayer(layer) == (CHOOSE i \in DOMAIN Layers : Layers[i] = layer) - 1

\* C6: every discovered slice gets one bundle; the bundle of a slice whose
\* layer has index i holds exactly one higher-layers pattern for each layer
\* of index < i, i of them in all, and exactly one same-layer pattern; no
\* bundle belongs to the first or the last layer.
C6_PatternsPerSlice ==
    (pc = "ready" /\ options.preventCrossImports) =>
       /\ Len(plugins) = Len(slices)
       /\ \A k \in DOMAIN plugins :
             LET p == plugins[k]
                 i == IndexOfLayer(p.layer)
                 higher == { n \in DOMAIN p.patterns : p.patterns[n].msg = MsgHigher }
                 same == { n \in DOMAIN p.patterns : p.patterns[n].msg = MsgSameLayer }
             IN /\ p.layer = slices[k].layer
                /\ p.slice = slices[k].slice
                /\ i > 0
                /\ i < Len(Layers) - 1
                /\ Cardinality(higher) = i
                /\ Cardinality(same) = 1
                /\ higher \cup same = DOMAIN p.patterns
                /\ \A j \in 1..i :
                      Cardinality({ n \in higher :
                                      p.patterns[n].re = PolicyASource(Layers[j]) }) = 1

\* a slice of the layer of index 2 has its bundle of two higher-layers
\* patterns and one same-layer pattern
C6_Witness ==
    /\ pc = "ready"
    /\ \E k \in DOMAIN plugins :
          /\ IndexOfLayer(plugins[k].layer) = 2
          /\ Len(plugins[k].patterns) = 3

\* a registration for the slice directory d, with both kinds of pattern
HasBundle(d) ==
    \E k \in DOMAIN plugins :
       /\ plugins[k].layer = d[1]
       /\ plugins[k].slice = d[2]
       /\ plugins[k].include = IncludeGlob(d[1], d[2])
       /\ \E n \in DOMAIN plugins[k].patterns : plugins[k].patterns[n].msg = MsgHigher
       /\ \E n \in DOMAIN plugins[k].patterns : plugins[k].patterns[n].msg = MsgSameLayer

SliceDirs ==
    { d \in fs : Len(d) = 2 /\ \E i \in 2..(Len(Layers) - 1) : Layers[i] = d[1] }

\* C7: with preventCrossImports on, a slice directory <root>/<middle
\* layer>/<slice> created after setup makes the watch hook request a
\* restart, and the setup that follows registers a bundle for it: whenever
\* setup has completed and no restart is pending, every slice directory has
\* its bundle.
C7_NewSliceGetsBundle ==
    (options.preventCrossImports /\ pc = "ready" /\ ~restartRequested) =>
       \A d \in SliceDirs : HasBundle(d)

\* the last directory the watch hook reported is a slice directory, the
\* restart it asked for has been served and setup has run again
C7_Witness ==
    /\ options.preventCrossImports
    /\ pc = "ready"
    /\ ~restartRequested
    /\ lastEvent.event = "addDir"
    /\ \E d \in SliceDirs : lastEvent.path = PathOf(d) /\ HasBundle(d)

\* C8: within one setup cycle no two registrations carry the same name.
C8_PluginNamesDistinct ==
    \A k1, k2 \in DOMAIN plugins : k1 # k2 => plugins[k1].name # plugins[k2].name

\* the options pass validation
ValidOptions ==
    /\ Len(Layers) >= 2
    /\ Len(options.segments) >= 1
    /\ \A i \in DOMAIN Layers : ~FolderNameIllegal(Layers[i])
    /\ \A i \in DOMAIN options.segments : ~FolderNameIllegal(options.segments[i])

\* C9: once setup has been called, invalid options have produced an error
\* diagnostic and setup has still run to completion; valid options have
\* produced no diagnostic.
C9_InvalidOptionsStillComplete ==
    pc # "boot" =>
       IF ValidOptions THEN errors = <<>>
       ELSE errors # <<>> /\ pc = "ready"

\* the directory an include glob <base>/**/* is anchored at
IncludeBase(include) == SubSeq(include, 1, Len(include) - 5)

\* C10: after setup, no entry of the auto-import list, of the auto-component
\* list or of the rule set names a path that does not exist.
C10_MissingDirsContributeNothing ==
    pc = "ready" =>
       /\ \A n \in DOMAIN importsDirs : ExistsSync(importsDirs[n])
       /\ \A n \in DOMAIN componentsDirs : ExistsSync(componentsDirs[n])
       /\ \A k \in DOMAIN plugins : ExistsSync(IncludeBase(plugins[k].include))

\* C11: the higher-layers pattern a bundle holds for the previous layer P
\* matches only import paths rooted at <root>/<P>/..., never a path below
\* another layer directory.
C11_HigherPatternOnlyItsLayer ==
    Probed =>
       \A k \in DOMAIN plugins : \A j \in 1..IndexOfLayer(plugins[k].layer) :
          RegexTest(plugins[k].patterns[j].re, probe.id)
          => IsPrefix(LayerPath(j) \o <<"/">>, probe.id)

\* C12: for slices S, T, U of one layer with T # S and U # S, an import
\* <root>/<L>/<T>/@x/<U>/... matches S's same-layer pattern.
C12_EscapeOnlyForOwnSlice ==
    Probed =>
       \A k \in DOMAIN plugins :
          \A t \in Siblings(plugins[k]) : \A u \in Siblings(plugins[k]) :
             IsPrefix(Join(SrcDir, <<plugins[k].layer, t, AtX, u>>) \o <<"/">>,
                      probe.id)
             => RegexTest(SameLayerRe(plugins[k]), probe.id)

\* the directories the scan discovers as slices: every directory below a
\* middle layer directory
DiscoveredDirs ==
    { d \in fs : Len(d) >= 2 /\ \E i \in 2..(Len(Layers) - 1) : Layers[i] = d[1] }

\* C13: every directory discovered as a slice, nested ones included, has a
\* bundle whose include glob is anchored at the directory's own path.
C13_ScopeIsOwnSubtree ==
    (pc = "ready" /\ ValidOptions /\ options.preventCrossImports
                  /\ ~restartRequested) =>
       \A d \in DiscoveredDirs :
          \E k \in DOMAIN plugins :
             /\ IncludeBase(plugins[k].include) = PathOf(d)
             /\ GlobMatch(plugins[k].include, Join(PathOf(d), <<FileX>>))

\* the number of components of a path relative to the source root
Components(rel) == Cardinality({ i \in DOMAIN rel : rel[i] = "/" })

\* C14: the watch hook asks for a restart only on an addDir event whose
\* path relative to the source root is <layer>/<slice> or
\* <layer>/<slice>/<segment>; no other event type and no addDir path of
\* fewer than two or more than three components asks for one, and the
\* handler raises no error.
C14_RestartOnlySliceOrSegment ==
    [][ /\ (~restartRequested /\ restartRequested') =>
            /\ lastEvent'.event = "addDir"
            /\ Components(ReplaceFirst(lastEvent'.path, SrcDir)) \in {2, 3}
        /\ (pc = "ready" /\ lastEvent' # lastEvent) =>
            (pc' = "ready" /\ errors' = errors) ]_vars

=============================================================================
